---- MODULE Spec2Model ----
(***************************************************************************)
(* A model of the dashboard aggregator (phd_package/dashboard/data.py) and *)
(* of the sliding-window builder (pipeline/stages/dataloader.py).          *)
(*                                                                         *)
(*   Spec         the aggregator used from one thread: construction,       *)
(*                the fifteen query methods, the file cache.               *)
(*   SpecThreads  several threads constructing the aggregator, one         *)
(*                statement of __new__ / __init__ per step.                *)
(*   SpecWin      sliding_windows applied to bounded tables, one loop      *)
(*                iteration (one sequence) per step.                       *)
(***************************************************************************)
EXTENDS Integers, Sequences, FiniteSets, TLC

\* ------------------------------------------------------------------ bounds
MaxSensors == 2
MaxLoads == 2
MaxThreads == 2
MaxTableRows == 5
MaxSequences == 2
MaxWindowSize == 2
MaxHorizon == 2
MaxStride == 2
MaxTotal == 6
RatioSteps == 4
MaxSamples == 3
MaxPrediction == 2

VARIABLES
    instance,     \* CustomDashboardData._instance: 0 is None, else the object's id
    self,         \* the attributes of the instance (Spec)
    store,        \* the backing store: path -> payload, or Absent
    calls,        \* the _read_or_compute_data calls of the latest handler that made any
    deleted,      \* the file of the latest call was deleted after that call
    disk,         \* SpecFaults: "ok", or "failing" when writes to the store raise
    ret,          \* what the latest call from the presentation layer came back with
    loadCount,    \* how many times _load_or_run_pipeline has run
    ctor,         \* what the first construction did (loaders' outcome, computations invoked)
    heap,         \* SpecThreads: the objects allocated, in order
    tpc,          \* SpecThreads: each thread's place in __new__ / __init__
    tself,        \* SpecThreads: each thread's local reference (0: none yet)
    df,           \* SpecWin: the "Sequence" column of the table, row by row
    cfg,          \* SpecWin: window_size, horizon, stride and the feature indices
    wpc,          \* SpecWin: "loop", "returned", "raised" (the assertion) or
                  \* "index_error" (SpecWinConfig: the indices cannot be used)
    todo,         \* SpecWin: the unique sequences not yet visited, in order
    windows,      \* SpecWin: the windows appended so far
    failure,      \* SpecWin: the sequence the assertion names (0: none)
    output,       \* SpecWin: what sliding_windows returned, once it has
    split,        \* SpecSplit: create_dataloaders' inputs and split sizes
    scores,       \* SpecAnomalies: test metrics, anomaly_std and the anomaly tables
    series        \* SpecMetrics: the raw series, n_days and the metric mappings

aggVars == <<instance, self, store, calls, deleted, disk, ret, loadCount, ctor>>

threadVars == <<heap, tpc, tself>>

winVars == <<df, cfg, wpc, todo, windows, failure, output>>

pureVars == <<split, scores, series>>

vars == <<aggVars, threadVars, winVars, pureVars>>

\* ---------------------------------------------------------------- payloads
\* A value is known by its Python kind, the function that built it, its len()
\* and the number of sensors it covers.
Value(kind, fn, len, items) == [kind |-> kind, fn |-> fn, len |-> len, items |-> items]

\* `[]`: every empty list is the same value, whoever built it.
EmptyList == Value("list", "none", 0, 0)

\* pd.DataFrame()
EmptyFrame == Value("frame", "none", 0, 0)

List(fn, n) == IF n = 0 THEN EmptyList ELSE Value("list", fn, n, n)

Frame(fn, n) == Value("frame", fn, n, n)

\* No file at a path; also "no value" where a value slot is unused.
Absent == Value("absent", "none", 0, 0)

\* get_input_feature_indices() returned None.
Unset == [unset |-> TRUE, list |-> <<>>]

Paths ==
    { "daily_record_counts", "completeness_metrics", "freshness_metrics",
      "test_predictions", "train_metrics", "anomalies", "training_windows" }

MetricKinds == {"completeness", "freshness"}

Sensors == 1..MaxSensors

\* The outcome of a call: it raised, or it returned `value`; `self` is the
\* instance's attributes afterwards.
Returned(s, v) == [self |-> s, raised |-> FALSE, value |-> v]

Raised(s) == [self |-> s, raised |-> TRUE, value |-> Absent]

\* The decorator handle_data_errors(default_return=d): an exception of the
\* wrapped method becomes d.
HandleDataErrors(out, default) ==
    IF out.raised THEN Returned(out.self, default) ELSE out

\* ------------------------------------------------------------ the instance
RowCounts == {0, 3}

\* What a loader of per-sensor artifacts can return for k sensors: one entry
\* per sensor, named 1..k, the raw series carrying its number of rows.
Names(seq) == [i \in 1..Len(seq) |-> seq[i].name]

NameSet(seq) == {seq[i].name : i \in 1..Len(seq)}

Datasets ==
    UNION { [1..k -> [name : Sensors, length : RowCounts]] : k \in 1..MaxSensors }

\* sensor_name is unique per series and the loaders list the sensors in order;
\* every series has rows, but for the last one, which may have none.
RawData ==
    {d \in Datasets : \A i \in 1..Len(d) :
        d[i].name = i /\ (i < Len(d) => d[i].length > 0)}

EmptyMetrics == [s \in {} |-> [float |-> 0, string |-> "No data"]]

\* The instance as __new__ leaves it (lines 23-24): only _initialized is set.
\* An attribute not yet assigned is "unset" (or its *_set flag is FALSE).
NewObject ==
    [ initialized |-> FALSE,
      sensor_metrics |-> [completeness |-> EmptyMetrics, freshness |-> EmptyMetrics],
      active_sensors |-> <<>>,
      data |-> <<>>, preprocessed_data |-> <<>>, engineered_data |-> <<>>,
      dataloader |-> <<>>, trained_models |-> <<>>, test_metrics |-> <<>>,
      latest_data |-> <<>>,
      sensors |-> "unset",
      trainable_sensors |-> <<>>,
      datetime_column |-> "unset",
      n_days_set |-> FALSE,
      anomaly_std_set |-> FALSE ]

Artifacts(s) ==
    << s.data, s.preprocessed_data, s.engineered_data,
       s.dataloader, s.trained_models, s.test_metrics >>

\* ------------------------------------------------- _load_or_run_pipeline
\* A loader returns a collection (possibly empty) or raises.
LoaderOutcomes == {"ok", "empty", "raise"}

\* What the six loaders hand back for a choice of upstream content d and of
\* each loader's outcome.
LoaderResults(d, outcome) ==
    [ i \in 1..6 |->
        [ raised |-> outcome[i] = "raise",
          value |-> IF outcome[i] # "ok" THEN <<>>
                    ELSE IF i = 1 THEN d
                    ELSE [j \in 1..Len(d) |-> [name |-> d[j].name]] ] ]

\* Lines 69-74: the assignments, in order, up to the first loader that raises.
AssignLoaded(s, res) ==
    LET stop == IF \E i \in 1..6 : res[i].raised
                THEN CHOOSE i \in 1..6 :
                        res[i].raised /\ \A j \in 1..(i - 1) : ~res[j].raised
                ELSE 7
        got(i, old) == IF i < stop THEN res[i].value ELSE old
    IN [ s EXCEPT !.data = got(1, @), !.preprocessed_data = got(2, @),
                  !.engineered_data = got(3, @), !.dataloader = got(4, @),
                  !.trained_models = got(5, @), !.test_metrics = got(6, @) ]

\* A handler that keeps what the loaders returned.
KeepLoaded(s) == s

\* Lines 81-90: the handler of any failure resets all six.
ResetArtifacts(s) ==
    [ s EXCEPT !.data = <<>>, !.preprocessed_data = <<>>, !.engineered_data = <<>>,
               !.dataloader = <<>>, !.trained_models = <<>>, !.test_metrics = <<>> ]

\* Lines 67-90.
LoadOrRunPipeline(s, res) ==
    LET loaded == AssignLoaded(s, res)
        raises == \E i \in 1..6 : res[i].raised
        \* line 77: not all([...]) over the six lists
        anyEmpty == \E i \in 1..6 : Artifacts(loaded)[i] = <<>>
    IN IF raises \/ anyEmpty THEN ResetArtifacts(loaded) ELSE loaded

\* ------------------------------------------------------ compute functions
Range(seq) == {seq[i] : i \in 1..Len(seq)}

NoData == [float |-> 0, string |-> "No data"]

\* Lines 208-214 and 261-269: every active sensor missing from the mapping
\* gets the "No data" record.
Backfill(m, active) ==
    [n \in (DOMAIN m) \cup Range(active) |-> IF n \in DOMAIN m THEN m[n] ELSE NoData]

\* The raw tables carry the timestamp column "Timestamp"; indexing a table by
\* another name is a KeyError, and reading self.datetime_column before it is
\* assigned an AttributeError.
ColumnFound(s) == s.datetime_column = "Timestamp"

RowOf(data, n) == data[CHOOSE i \in 1..Len(data) : data[i].name = n]

\* A computation that stores the entry of the first series and then fails.
PartialCompleteness(s) ==
    Raised([s EXCEPT !.sensor_metrics.completeness =
                         [n \in {s.data[i].name : i \in 1..Len(s.data)} \cap {1} |->
                             [float |-> RowOf(s.data, n).length, string |-> "percent"]]])

\* Lines 186-215. Line 193 reads self.n_days.
ComputeCompletenessMetrics(s) ==
    IF ~s.n_days_set THEN Raised(s)
    ELSE LET m == [n \in NameSet(s.data) |->
                      [float |-> RowOf(s.data, n).length, string |-> "percent"]]
         IN Returned([s EXCEPT !.sensor_metrics.completeness = Backfill(m, s.active_sensors)],
                     Frame("completeness", Len(s.data)))

\* Lines 227-271. Line 232 indexes every table by self.datetime_column; lines
\* 236-238 take .dt of (now - most_recent), which no table-less frame offers
\* (its column is not datetime-like), and read self.n_days.
ComputeFreshnessMetrics(s) ==
    IF s.data = <<>> \/ ~ColumnFound(s) \/ ~s.n_days_set THEN Raised(s)
    ELSE LET m == [n \in NameSet(s.data) |-> [float |-> 1, string |-> "elapsed"]]
         IN Returned([s EXCEPT !.sensor_metrics.freshness = Backfill(m, s.active_sensors)],
                     Frame("freshness", Len(s.data)))

\* Lines 163-173, under handle_data_errors(default_return=lambda: pd.DataFrame()).
ComputeDailyCounts(s) ==
    HandleDataErrors(
        IF s.data # <<>> /\ ~ColumnFound(s) THEN Raised(s)
        ELSE Returned(s, List("daily_counts", Len(s.data))),
        EmptyFrame)

\* Lines 300-325, under handle_data_errors(default_return=lambda: []). Line 319
\* reads self.anomaly_std.
ComputeAnomalies(s) ==
    HandleDataErrors(
        IF s.test_metrics = <<>> THEN Returned(s, EmptyList)
        ELSE IF ~s.anomaly_std_set THEN Raised(s)
        ELSE Returned(s, List("anomalies", Len(s.test_metrics))),
        EmptyList)

\* Lines 361-371: always the four lists, one item in each per dataloader entry.
ComputeTrainingWindows(s) ==
    Returned(s, Value("list", "training_windows", 4, Len(s.dataloader)))

\* compute_func(): the bound methods and the lambdas of lines 279, 288, 297.
Compute(s, fn) ==
    CASE fn = "_compute_daily_counts" -> ComputeDailyCounts(s)
      [] fn = "_compute_completeness_metrics" -> ComputeCompletenessMetrics(s)
      [] fn = "_compute_freshness_metrics" -> ComputeFreshnessMetrics(s)
      [] fn = "test_predictions_lambda" ->
            Returned(s, List("test_predictions_lambda", Len(s.test_metrics)))
      [] fn = "train_metrics_lambda" ->
            Returned(s, List("train_metrics_lambda", Len(s.trained_models)))
      [] fn = "test_metrics_lambda" ->
            Returned(s, List("test_metrics_lambda", Len(s.test_metrics)))
      [] fn = "_compute_anomalies" -> ComputeAnomalies(s)
      [] fn = "_compute_training_windows" -> ComputeTrainingWindows(s)

\* `if data:` (line 144): a list is true when it has items; the truth value
\* of a DataFrame is a ValueError.
Truth(v) == IF v.kind = "frame" THEN "raises" ELSE IF v.len > 0 THEN "true" ELSE "false"

\* ---------------------------------------------------------------- the cache
\* The record kept of one _read_or_compute_data call.
\*   existed   os.path.exists(file_path) was true
\*   hit       the loaded payload was returned (line 137)
\*   invoked   compute_func was called
\*   computed  "none", or how compute_func ended: "ok" or "raised"
\*   cvalue    what compute_func returned
\*   wrote     save_data wrote the file
\*   result    what the call returned
\*   repeat    how the call relates to the call just before it: "no" when that
\*             was on another path or with another compute function, else
\*             "deleted" when the file was deleted in between, else
\*             "persisted" when the earlier call found or wrote the file, else
\*             "unpersisted"
\*   same      the result equals the earlier call's result
\*   loadFailed  the file existed and load_data gave None or raised
\*   saveFailed  save_data (or os.makedirs) raised
NoCall ==
    [ path |-> "none", fn |-> "none", existed |-> FALSE, hit |-> FALSE,
      invoked |-> FALSE, computed |-> "none", cvalue |-> Absent, wrote |-> FALSE,
      result |-> Absent, repeat |-> "no", same |-> FALSE,
      loadFailed |-> FALSE, saveFailed |-> FALSE ]

\* A file that cannot be loaded: load_data signals it by returning None, or
\* by raising.
Corrupt(signal) == Value("corrupt", signal, 0, 0)

\* os.path.exists (line 132).
PathExists(st, path) == st[path] # Absent

\* load_data(file_path, "app data"): the payload stored at the path; None
\* (Absent) for a file it cannot load and reports so by its result.
LoadData(st, path) == IF st[path].kind = "corrupt" THEN Absent ELSE st[path]

\* load_data raises on a file it cannot load.
LoadRaises(st, path) == st[path] = Corrupt("raises")

\* save_data(data, file_path, "app data"), after os.makedirs.
SaveData(st, path, data) == [st EXCEPT ![path] = data]

\* os.makedirs or save_data raises: the store refuses writes.
SaveRaises(w) == w.disk = "failing"

\* A cache that is never read: every call computes.
NeverHit(st, path) == FALSE

\* Lines 132-137: the file exists and load_data returned something.
CacheHit(st, path) == PathExists(st, path) /\ LoadData(st, path) # Absent

\* Line 144: the computed data is saved when it is true.
ShouldSave(c) == ~c.raised /\ Truth(c.value) = "true"

HowRepeated(w, path, fn) ==
    IF w.prev.path # path \/ w.prev.fn # fn THEN "no"
    ELSE IF w.deleted THEN "deleted"
    ELSE IF w.prev.hit \/ w.prev.wrote THEN "persisted"
    ELSE "unpersisted"

\* A call of the aggregator, over the world w = [self, store, log, prev,
\* deleted]: log the calls of _read_or_compute_data made so far by the handler,
\* prev the latest such call of all.
WReturned(w, v) == [w |-> w, raised |-> FALSE, value |-> v]

WRaised(w) == [w |-> w, raised |-> TRUE, value |-> Absent]

Logged(w, s, st, rec) ==
    [ self |-> s, store |-> st, log |-> Append(w.log, rec), prev |-> rec,
      deleted |-> FALSE, disk |-> w.disk ]

\* A method under handle_data_errors, over the world.
WHandleDataErrors(out, default) ==
    IF out.raised THEN WReturned(out.w, default) ELSE out

\* Lines 129-154, under handle_data_errors(default_return=lambda: []): the
\* call of load_data (line 134) stands outside the try of lines 141-154, so
\* what it raises reaches the decorator.
ReadOrComputeData(w, file_path, compute_func) ==
    LET rep == HowRepeated(w, file_path, compute_func)
        base == [ NoCall EXCEPT !.path = file_path, !.fn = compute_func,
                                !.existed = PathExists(w.store, file_path),
                                !.repeat = rep,
                                !.loadFailed = (PathExists(w.store, file_path)
                                                /\ LoadData(w.store, file_path) = Absent) ]
    IN IF PathExists(w.store, file_path) /\ LoadRaises(w.store, file_path)
       THEN LET rec == [ base EXCEPT !.result = EmptyList,
                                     !.same = (rep # "no" /\ EmptyList = w.prev.result) ]
            IN WHandleDataErrors(WRaised(Logged(w, w.self, w.store, rec)), EmptyList)
       ELSE IF CacheHit(w.store, file_path)
       THEN LET data == LoadData(w.store, file_path)
                rec == [ base EXCEPT !.hit = TRUE, !.result = data,
                                     !.same = (rep # "no" /\ data = w.prev.result) ]
            IN WReturned(Logged(w, w.self, w.store, rec), data)
       ELSE LET c == Compute(w.self, compute_func)
                saveFailed == ShouldSave(c) /\ SaveRaises(w)
                save == ShouldSave(c) /\ ~saveFailed
                \* lines 152-154: compute_func, `if data:` or the save raised
                failed == \/ c.raised
                          \/ saveFailed
                          \/ (~ShouldSave(c) /\ Truth(c.value) = "raises")
                result == IF failed THEN EmptyList ELSE c.value
                st == IF save THEN SaveData(w.store, file_path, c.value) ELSE w.store
                rec == [ base EXCEPT !.invoked = TRUE,
                                     !.computed = IF c.raised THEN "raised" ELSE "ok",
                                     !.cvalue = c.value, !.wrote = save,
                                     !.saveFailed = saveFailed,
                                     !.result = result,
                                     !.same = (rep # "no" /\ result = w.prev.result) ]
            IN WReturned(Logged(w, c.self, st, rec), result)

\* -------------------------------------------------------------- the queries
\* Lines 112-123.
GetSensorInfo(w) ==
    WHandleDataErrors(
        IF w.self.sensors = "unset" THEN WReturned(w, Value("tuple", "empty_lists", 3, 0))
        ELSE WReturned(w, Value("tuple", "sensor_info", 3, Len(w.self.active_sensors))),
        Value("tuple", "empty_series", 3, 0))

MetricTypes == {"completeness", "freshness", "anomalies"}

\* Lines 125-127.
GetSensorMetrics(w, metric_type) ==
    WHandleDataErrors(
        WReturned(w, Value("dict", metric_type,
                           IF metric_type \in MetricKinds
                           THEN Cardinality(DOMAIN w.self.sensor_metrics[metric_type])
                           ELSE 0, 0)),
        Value("dict", "none", 0, 0))

\* Lines 156-161.
GetDailyCounts(w) ==
    WHandleDataErrors(
        ReadOrComputeData(w, "daily_record_counts", "_compute_daily_counts"),
        EmptyFrame)

\* Lines 175-184.
GetCompletenessMetrics(w) ==
    WHandleDataErrors(
        ReadOrComputeData(w, "completeness_metrics", "_compute_completeness_metrics"),
        EmptyFrame)

\* Lines 217-225.
GetFreshnessMetrics(w) ==
    WHandleDataErrors(
        ReadOrComputeData(w, "freshness_metrics", "_compute_freshness_metrics"),
        EmptyFrame)

\* Lines 273-280.
GetTestPredictions(w) ==
    WHandleDataErrors(
        ReadOrComputeData(w, "test_predictions", "test_predictions_lambda"),
        EmptyList)

\* Lines 282-289.
GetTrainMetrics(w) ==
    WHandleDataErrors(
        ReadOrComputeData(w, "train_metrics", "train_metrics_lambda"),
        EmptyList)

\* Lines 291-298: the path is get_test_predictions_path here too.
GetTestMetrics(w) ==
    WHandleDataErrors(
        ReadOrComputeData(w, "test_predictions", "test_metrics_lambda"),
        EmptyList)

\* Lines 327-333.
GetAnomalies(w) ==
    WHandleDataErrors(
        ReadOrComputeData(w, "anomalies", "_compute_anomalies"),
        EmptyList)

\* Lines 335-340: find_tuple_by_first_element finds the sensor among the
\* items of the list, or gives None.
GetTotalAnomalies(w, sensor_name) ==
    LET a == GetAnomalies(w)
    IN WHandleDataErrors(
        IF sensor_name \in 1..a.value.items
        THEN WReturned(a.w, Value("int", "anomaly_sum", 0, 1))
        ELSE WReturned(a.w, Value("int", "zero", 0, 0)),
        EmptyList)

\* Lines 342-352: sensor_name 0 is None, and then self.active_sensors[0] is read;
\* the table is looked up in what the loader returns again.
TableOf(w, artifact, fn, sensor_name) ==
    WHandleDataErrors(
        IF sensor_name = 0 /\ w.self.active_sensors = <<>> THEN WRaised(w)
        ELSE LET name == IF sensor_name = 0 THEN w.self.active_sensors[1] ELSE sensor_name
             IN IF name \in NameSet(artifact) THEN WReturned(w, Frame(fn, 1))
                ELSE WReturned(w, EmptyFrame),
        EmptyFrame)

GetPreprocessingTable(w, sensor_name) ==
    TableOf(w, w.self.preprocessed_data, "preprocessing_table", sensor_name)

GetEngineeringTable(w, sensor_name) ==
    TableOf(w, w.self.engineered_data, "engineering_table", sensor_name)

\* Lines 354-359.
GetTrainingWindows(w) ==
    WHandleDataErrors(
        ReadOrComputeData(w, "training_windows", "_compute_training_windows"),
        Value("list", "empty_lists", 4, 0))

\* Lines 373-399: no decorator. Line 380 indexes the sample taken from
\* self.test_metrics; lines 385-388 read self.sensors, self.trainable_sensors
\* and self.n_days; lines 389-392 call four queries.
GetMetadata(w) ==
    IF w.self.test_metrics = <<>> THEN WRaised(w)
    ELSE IF w.self.sensors = "unset" \/ ~w.self.n_days_set THEN WRaised(w)
    ELSE LET a == GetSensorInfo(w)
             b == GetCompletenessMetrics(a.w)
             c == GetFreshnessMetrics(b.w)
             d == GetDailyCounts(c.w)
         IN WReturned(d.w, Value("dict", "metadata", 13, Len(w.self.active_sensors)))

\* Lines 401-404: random.choice of an empty list is an IndexError.
GetRandomSensor(w) ==
    WHandleDataErrors(
        IF w.self.active_sensors = <<>> THEN WRaised(w)
        ELSE WReturned(w, Value("str", "choice", 1, 1)),
        Value("str", "none", 0, 0))

\* ------------------------------------------------------------- construction
\* What the calls of _initialize_attributes into the sensor list and the
\* configuration do: `fail` names the one that raises, if any, and
\* datetime_column is the name get_datetime_column returns.
Envs ==
    [ fail : {"none", "load_sensor_list", "get_datetime_column", "get_anomaly_std"},
      datetime_column : {"Timestamp", "Missing"} ]

\* Lines 92-109; `ran` is the set of metric computations it invoked.
InitializeAttributes(s, env) ==
    LET s1 == [s EXCEPT !.latest_data = Names(s.data)]
        s2 == [s1 EXCEPT !.sensors = "set",
                         !.active_sensors = Names(s.data),
                         !.trainable_sensors =
                             IF s.data # <<>> THEN Names(s.dataloader) ELSE <<>>]
        s3 == [s2 EXCEPT !.datetime_column = env.datetime_column, !.n_days_set = TRUE]
        s4 == [s3 EXCEPT !.anomaly_std_set = TRUE]
        c == ComputeCompletenessMetrics(s4)
        f == ComputeFreshnessMetrics(c.self)
    IN CASE env.fail = "load_sensor_list" -> [self |-> s1, ran |-> {}]
         [] env.fail = "get_datetime_column" -> [self |-> s2, ran |-> {}]
         [] env.fail = "get_anomaly_std" -> [self |-> s3, ran |-> {}]
         [] OTHER -> IF c.raised THEN [self |-> c.self, ran |-> {"completeness"}]
                     ELSE [self |-> f.self, ran |-> MetricKinds]

\* Lines 40-46.
DebugPrintData(w) ==
    GetFreshnessMetrics(GetCompletenessMetrics(GetSensorInfo(w).w).w).w

\* A flag that is never seen set.
NeverInitialized(s) == FALSE

\* Line 28: the flag __init__ tests.
Initialized(s) == s.initialized

\* Lines 21-25: the object __new__ returns, given whether cls._instance is None.
New(inst, s) == IF inst = 0 THEN NewObject ELSE s

\* Lines 27-38; `loads` counts the runs of the load sequence, `ran` is what
\* _initialize_attributes invoked.
Init__(w, res, env) ==
    IF Initialized(w.self) THEN [w |-> w, loads |-> 0, ran |-> {}]
    ELSE LET s0 == [w.self EXCEPT !.sensor_metrics =
                                      [completeness |-> EmptyMetrics,
                                       freshness |-> EmptyMetrics],
                                  !.active_sensors = <<>>]
             s1 == LoadOrRunPipeline(s0, res)
             ia == InitializeAttributes(s1, env)
             s2 == [ia.self EXCEPT !.initialized = TRUE]
         IN [w |-> DebugPrintData([w EXCEPT !.self = s2]), loads |-> 1, ran |-> ia.ran]

\* ------------------------------------------------------------------ actions
\* ret: the method called, whether it raised to the caller and, for the
\* constructor, whether it ran the load sequence.
NoReturn == [query |-> "none", raised |-> FALSE, loaded |-> FALSE]

NoCtor == [anyBad |-> FALSE, initRan |-> {}, debugRan |-> {}]

LastCall == IF calls = <<>> THEN NoCall ELSE calls[Len(calls)]

\* The world a handler starts in.
World(s) ==
    [ self |-> s, store |-> store, log |-> <<>>, prev |-> LastCall,
      deleted |-> deleted, disk |-> disk ]

\* The world a handler leaves.
Leave(w) ==
    /\ self' = w.self
    /\ store' = w.store
    /\ calls' = IF w.log = <<>> THEN calls ELSE w.log
    /\ deleted' = w.deleted
    /\ disk' = disk

\* The inputs a construction consults: none once the instance is initialized.
OneInput == <<CHOOSE d \in RawData : TRUE, [i \in 1..6 |-> "ok"], CHOOSE e \in Envs : TRUE>>

ConstructInputs(s) ==
    IF Initialized(s) THEN {OneInput}
    ELSE RawData \X [1..6 -> LoaderOutcomes] \X Envs

\* CustomDashboardData(): __new__, then __init__ on what it returned.
Construct ==
    /\ loadCount < MaxLoads
    /\ \E in \in ConstructInputs(New(instance, self)) :
          LET obj == New(instance, self)
              r == Init__(World(obj), LoaderResults(in[1], in[2]), in[3])
          IN /\ instance' = 1
             /\ Leave(r.w)
             /\ loadCount' = loadCount + r.loads
             /\ ctor' = IF r.loads = 0 THEN ctor
                        ELSE [ anyBad |-> \E i \in 1..6 : in[2][i] # "ok",
                               initRan |-> r.ran,
                               debugRan |->
                                   {k \in MetricKinds : \E j \in 1..Len(r.w.log) :
                                       /\ r.w.log[j].invoked
                                       /\ r.w.log[j].path =
                                              IF k = "completeness"
                                              THEN "completeness_metrics"
                                              ELSE "freshness_metrics"} ]
             /\ ret' = [query |-> "CustomDashboardData", raised |-> FALSE,
                        loaded |-> r.loads > 0]
    /\ UNCHANGED <<threadVars, winVars, pureVars>>

\* A query from the presentation layer, which holds the constructed instance.
Answer(name, out) ==
    /\ Leave(out.w)
    /\ ret' = [query |-> name, raised |-> out.raised, loaded |-> FALSE]
    /\ UNCHANGED <<instance, loadCount, ctor, threadVars, winVars, pureVars>>

Ready == instance # 0

QSensorInfo == Ready /\ Answer("get_sensor_info", GetSensorInfo(World(self)))

QSensorMetrics ==
    /\ Ready
    /\ \E m \in MetricTypes : Answer("get_sensor_metrics", GetSensorMetrics(World(self), m))

QDailyCounts == Ready /\ Answer("get_daily_counts", GetDailyCounts(World(self)))

QCompletenessMetrics ==
    Ready /\ Answer("get_completeness_metrics", GetCompletenessMetrics(World(self)))

QFreshnessMetrics ==
    Ready /\ Answer("get_freshness_metrics", GetFreshnessMetrics(World(self)))

QTestPredictions == Ready /\ Answer("get_test_predictions", GetTestPredictions(World(self)))

QTrainMetrics == Ready /\ Answer("get_train_metrics", GetTrainMetrics(World(self)))

QTestMetrics == Ready /\ Answer("get_test_metrics", GetTestMetrics(World(self)))

QAnomalies == Ready /\ Answer("get_anomalies", GetAnomalies(World(self)))

QTotalAnomalies ==
    /\ Ready
    /\ \E n \in Sensors : Answer("get_total_anomalies", GetTotalAnomalies(World(self), n))

QPreprocessingTable ==
    /\ Ready
    /\ \E n \in {0} \cup Sensors :
          Answer("get_preprocessing_table", GetPreprocessingTable(World(self), n))

QEngineeringTable ==
    /\ Ready
    /\ \E n \in {0} \cup Sensors :
          Answer("get_engineering_table", GetEngineeringTable(World(self), n))

QTrainingWindows == Ready /\ Answer("get_training_windows", GetTrainingWindows(World(self)))

QMetadata == Ready /\ Answer("get_metadata", GetMetadata(World(self)))

QRandomSensor == Ready /\ Answer("get_random_sensor", GetRandomSensor(World(self)))

\* The backing file of a path is deleted from outside.
DeleteFile ==
    /\ \E p \in Paths :
          /\ PathExists(store, p)
          /\ store' = [store EXCEPT ![p] = Absent]
          /\ deleted' = (deleted \/ LastCall.path = p)
    /\ UNCHANGED <<instance, self, calls, disk, ret, loadCount, ctor,
                   threadVars, winVars, pureVars>>

NoOutput ==
    [returned |-> FALSE, windows |-> <<>>, inputs |-> <<>>, targets |-> <<>>, feature_dim |-> 0]

IdleThreads == /\ heap = <<>>
               /\ tpc = <<>>
               /\ tself = <<>>

IdleWin == /\ df = <<>>
           /\ cfg = [ window_size |-> 1, horizon |-> 0, stride |-> 1,
                     input_feature_indices |-> Unset, target_feature_index |-> 0 ]
           /\ wpc = "idle"
           /\ todo = <<>>
           /\ windows = <<>>
           /\ failure = 0
           /\ output = NoOutput

\* The pure functions have not been called.
IdlePure == /\ split = [pc |-> "idle"]
            /\ scores = [pc |-> "idle"]
            /\ series = [pc |-> "idle"]

Init ==
    /\ instance = 0
    /\ self = NewObject
    /\ store = [p \in Paths |-> Absent]
    /\ calls = <<>>
    /\ deleted = FALSE
    /\ disk = "ok"
    /\ ret = NoReturn
    /\ loadCount = 0
    /\ ctor = NoCtor
    /\ IdlePure
    /\ IdleThreads
    /\ IdleWin

Next ==
    \/ Construct
    \/ QSensorInfo
    \/ QSensorMetrics
    \/ QDailyCounts
    \/ QCompletenessMetrics
    \/ QFreshnessMetrics
    \/ QTestPredictions
    \/ QTrainMetrics
    \/ QTestMetrics
    \/ QAnomalies
    \/ QTotalAnomalies
    \/ QPreprocessingTable
    \/ QEngineeringTable
    \/ QTrainingWindows
    \/ QMetadata
    \/ QRandomSensor
    \/ DeleteFile

Spec == Init /\ [][Next]_vars

\* --------------------------------------------- the cache on a failing store
\* A file of the store becomes unreadable (truncated, overwritten from outside).
CorruptFile ==
    /\ \E p \in {"test_predictions", "anomalies"} : \E signal \in {"returns_none", "raises"} :
          /\ PathExists(store, p)
          /\ store[p].kind # "corrupt"
          /\ store' = [store EXCEPT ![p] = Corrupt(signal)]
    /\ UNCHANGED <<instance, self, calls, deleted, disk, ret, loadCount, ctor,
                   threadVars, winVars, pureVars>>

\* The store starts refusing writes (disk full, directory read-only).
DiskFails ==
    /\ disk = "ok"
    /\ disk' = "failing"
    /\ UNCHANGED <<instance, self, store, calls, deleted, ret, loadCount, ctor,
                   threadVars, winVars, pureVars>>

\* The store accepts writes again.
DiskRecovers ==
    /\ disk = "failing"
    /\ disk' = "ok"
    /\ UNCHANGED <<instance, self, store, calls, deleted, ret, loadCount, ctor,
                   threadVars, winVars, pureVars>>

\* Construction and the list-valued cached queries, on a store that can fail.
NextFaults ==
    \/ Construct
    \/ QTestPredictions
    \/ QAnomalies
    \/ CorruptFile
    \/ DiskFails
    \/ DiskRecovers

SpecFaults == Init /\ [][NextFaults]_vars

\* ------------------------------------------ construction by several threads
Threads == 1..MaxThreads

\* An object's _initialized: "unset" until line 24 has run on it.
ThreadStep(t, to) == tpc' = [tpc EXCEPT ![t] = to]

AggIdle == UNCHANGED <<self, store, calls, deleted, disk, ret, ctor, winVars, pureVars>>

\* Line 22: if cls._instance is None.
TNewTest(t) ==
    /\ tpc[t] = "new_test"
    /\ ThreadStep(t, IF instance = 0 THEN "new_alloc" ELSE "new_return")
    /\ UNCHANGED <<instance, heap, tself, loadCount>>
    /\ AggIdle

\* Line 23: cls._instance = super().__new__(cls).
TNewAlloc(t) ==
    /\ tpc[t] = "new_alloc"
    /\ heap' = Append(heap, [initialized |-> "unset"])
    /\ instance' = Len(heap) + 1
    /\ ThreadStep(t, "new_flag")
    /\ UNCHANGED <<tself, loadCount>>
    /\ AggIdle

\* Line 24: cls._instance._initialized = False.
TNewFlag(t) ==
    /\ tpc[t] = "new_flag"
    /\ heap' = [heap EXCEPT ![instance].initialized = "false"]
    /\ ThreadStep(t, "new_return")
    /\ UNCHANGED <<instance, tself, loadCount>>
    /\ AggIdle

\* Line 25: return cls._instance.
TNewReturn(t) ==
    /\ tpc[t] = "new_return"
    /\ tself' = [tself EXCEPT ![t] = instance]
    /\ ThreadStep(t, "init_test")
    /\ UNCHANGED <<instance, heap, loadCount>>
    /\ AggIdle

\* Lines 28-29: if self._initialized: return. Reading the attribute of an
\* object line 24 has not reached yet is an AttributeError.
TInitTest(t) ==
    /\ tpc[t] = "init_test"
    /\ ThreadStep(t, CASE heap[tself[t]].initialized = "true" -> "done"
                       [] heap[tself[t]].initialized = "false" -> "init_load"
                       [] OTHER -> "raised")
    /\ UNCHANGED <<instance, heap, tself, loadCount>>
    /\ AggIdle

\* Lines 31-33: the load sequence starts with _load_or_run_pipeline.
TInitLoad(t) ==
    /\ tpc[t] = "init_load"
    /\ loadCount' = loadCount + 1
    /\ ThreadStep(t, "init_attrs")
    /\ UNCHANGED <<instance, heap, tself>>
    /\ AggIdle

\* Line 34: _initialize_attributes.
TInitAttrs(t) ==
    /\ tpc[t] = "init_attrs"
    /\ ThreadStep(t, "init_flag")
    /\ UNCHANGED <<instance, heap, tself, loadCount>>
    /\ AggIdle

\* Lines 35-38: self._initialized = True, and the constructor returns.
TInitFlag(t) ==
    /\ tpc[t] = "init_flag"
    /\ heap' = [heap EXCEPT ![tself[t]].initialized = "true"]
    /\ ThreadStep(t, "done")
    /\ UNCHANGED <<instance, tself, loadCount>>
    /\ AggIdle

InitThreads ==
    /\ instance = 0
    /\ self = NewObject
    /\ store = [p \in Paths |-> Absent]
    /\ calls = <<>>
    /\ deleted = FALSE
    /\ disk = "ok"
    /\ ret = NoReturn
    /\ loadCount = 0
    /\ ctor = NoCtor
    /\ IdlePure
    /\ heap = <<>>
    /\ tpc = [t \in Threads |-> "new_test"]
    /\ tself = [t \in Threads |-> 0]
    /\ IdleWin

NextThreads ==
    \E t \in Threads :
        \/ TNewTest(t)
        \/ TNewAlloc(t)
        \/ TNewFlag(t)
        \/ TNewReturn(t)
        \/ TInitTest(t)
        \/ TInitLoad(t)
        \/ TInitAttrs(t)
        \/ TInitFlag(t)

SpecThreads == InitThreads /\ [][NextThreads]_vars

\* ---------------------------------------------------------- sliding_windows
SequenceIds == 1..MaxSequences

\* The table, as its "Sequence" column: row r belongs to sequence df[r].
Tables == UNION { [1..n -> SequenceIds] : n \in 0..MaxTableRows }

\* The columns of the table, by position: the value column and "Sequence".
Columns == <<0, 1>>

\* get_input_feature_indices(): a list of column positions, or None.
Given(list) == [unset |-> FALSE, list |-> list]

Configs ==
    [ window_size : 1..MaxWindowSize, horizon : 0..MaxHorizon, stride : 1..MaxStride,
      input_feature_indices : {Unset, Given(<<0>>)},
      target_feature_index : {0, 1} ]

\* Lines 63-66: the indices default to all columns when they are unset and
\* the target is column 0; with another target a message is printed and the
\* indices stay as the configuration gave them.
InputFeatureIndices(c) ==
    IF c.input_feature_indices.unset /\ c.target_feature_index = 0
    THEN Given(Columns)
    ELSE c.input_feature_indices

\* Lines 83 and 95: .iloc[rows, None] and len(None) raise.
Indexable(c) == ~InputFeatureIndices(c).unset

\* The identifiers of a column in increasing order.
SortedIds(col) ==
    SelectSeq([q \in SequenceIds |-> q], LAMBDA q : \E i \in 1..Len(col) : col[i] = q)

\* df["Sequence"].unique() (line 71): the identifiers in order of first appearance.
RECURSIVE Unique(_)
Unique(col) ==
    IF col = <<>> THEN <<>>
    ELSE LET rest == Unique(SubSeq(col, 1, Len(col) - 1))
             last == col[Len(col)]
         IN IF \E i \in 1..Len(rest) : rest[i] = last THEN rest ELSE Append(rest, last)

\* A builder that cuts its windows from the whole table.
WholeTable(table, sequence) == [r \in 1..Len(table) |-> r]

\* df[df["Sequence"] == sequence] (line 74): the rows of the sequence, in table order.
SequenceData(table, sequence) ==
    SelectSeq([r \in 1..Len(table) |-> r], LAMBDA r : table[r] = sequence)

\* range(start, stop, step), step > 0.
RECURSIVE PyRange(_, _, _)
PyRange(start, stop, step) ==
    IF start >= stop THEN <<>> ELSE <<start>> \o PyRange(start + step, stop, step)

\* A builder without the assertion.
AssertSkipped(L, c) == TRUE

\* Lines 77-79: the assertion on the sequence's length.
AssertHolds(L, c) == L > c.window_size

\* A range that stops one start short.
WindowStopShort(L, c) == L - c.window_size - c.horizon

\* Line 81: the stop of the loop's range.
WindowStop(L, c) == L - c.window_size - c.horizon + 1

\* Lines 81-90: the windows of one sequence; a row is known by its place in
\* the table, and row i of the code (from 0) is rows[i + 1] here.
WindowsOf(table, c, sequence) ==
    LET rows == SequenceData(table, sequence)
        starts == PyRange(0, WindowStop(Len(rows), c), c.stride)
    IN [ k \in 1..Len(starts) |->
           [ sequence |-> sequence,
             start |-> starts[k],
             input |-> SubSeq(rows, starts[k] + 1, starts[k] + c.window_size),
             columns |-> InputFeatureIndices(c).list,
             target |-> rows[starts[k] + c.window_size + c.horizon],
             target_column |-> c.target_feature_index ] ]

AggQuiet == UNCHANGED <<aggVars, threadVars, pureVars>>

\* One iteration of the loop of line 73 whose assertion holds.
VisitSequence ==
    /\ wpc = "loop"
    /\ todo # <<>>
    /\ AssertHolds(Len(SequenceData(df, Head(todo))), cfg)
    /\ Indexable(cfg) \/ WindowsOf(df, cfg, Head(todo)) = <<>>
    /\ windows' = windows \o WindowsOf(df, cfg, Head(todo))
    /\ todo' = Tail(todo)
    /\ UNCHANGED <<df, cfg, wpc, failure, output>>
    /\ AggQuiet

\* The iteration whose assertion fails: AssertionError, naming the sequence.
AssertionFails ==
    /\ wpc = "loop"
    /\ todo # <<>>
    /\ ~AssertHolds(Len(SequenceData(df, Head(todo))), cfg)
    /\ wpc' = "raised"
    /\ failure' = Head(todo)
    /\ UNCHANGED <<df, cfg, todo, windows, output>>
    /\ AggQuiet

\* Input indices still None: the first window's .iloc (line 83) raises, and
\* with no window at all len(input_feature_indices) does (line 95).
IndexFails ==
    /\ wpc = "loop"
    /\ ~Indexable(cfg)
    /\ \/ /\ todo # <<>>
          /\ AssertHolds(Len(SequenceData(df, Head(todo))), cfg)
          /\ WindowsOf(df, cfg, Head(todo)) # <<>>
       \/ todo = <<>>
    /\ wpc' = "index_error"
    /\ UNCHANGED <<df, cfg, todo, windows, failure, output>>
    /\ AggQuiet

\* Lines 92-102: the loop is over; the inputs and the targets, appended side
\* by side (lines 89-90), are returned as two arrays with the feature dimension
\* len(input_feature_indices) (line 95).
ReturnWindows ==
    /\ wpc = "loop"
    /\ todo = <<>>
    /\ Indexable(cfg)
    /\ wpc' = "returned"
    /\ output' =
          [ returned |-> TRUE,
            windows |-> windows,
            inputs |-> [k \in 1..Len(windows) |->
                          [rows |-> windows[k].input, columns |-> windows[k].columns]],
            targets |-> [k \in 1..Len(windows) |->
                           [row |-> windows[k].target,
                            column |-> windows[k].target_column]],
            feature_dim |-> Len(InputFeatureIndices(cfg).list) ]
    /\ UNCHANGED <<df, cfg, todo, windows, failure>>
    /\ AggQuiet

\* sliding_windows is called on a table, under a configuration.
WinStart(configs) ==
    /\ df \in Tables
    /\ cfg \in configs
    /\ wpc = "loop"
    /\ todo = Unique(df)
    /\ windows = <<>>
    /\ failure = 0
    /\ output = NoOutput

InitWin ==
    /\ instance = 0
    /\ self = NewObject
    /\ store = [p \in Paths |-> Absent]
    /\ calls = <<>>
    /\ deleted = FALSE
    /\ disk = "ok"
    /\ ret = NoReturn
    /\ loadCount = 0
    /\ ctor = NoCtor
    /\ IdlePure
    /\ IdleThreads
    /\ WinStart({c \in Configs : Indexable(c)})

NextWin == VisitSequence \/ AssertionFails \/ ReturnWindows

\* sliding_windows under the configurations whose indices can be used.
SpecWin == InitWin /\ [][NextWin]_vars

InitWinConfig ==
    /\ instance = 0
    /\ self = NewObject
    /\ store = [p \in Paths |-> Absent]
    /\ calls = <<>>
    /\ deleted = FALSE
    /\ disk = "ok"
    /\ ret = NoReturn
    /\ loadCount = 0
    /\ ctor = NoCtor
    /\ IdlePure
    /\ IdleThreads
    /\ WinStart(Configs)

NextWinConfig == VisitSequence \/ AssertionFails \/ ReturnWindows \/ IndexFails

\* sliding_windows under every configuration of the indices.
SpecWinConfig == InitWinConfig /\ [][NextWinConfig]_vars

\* ------------------------------------------------------- create_dataloaders
\* The aggregator, the threads and the window builder at rest.
AllIdle ==
    /\ instance = 0
    /\ self = NewObject
    /\ store = [p \in Paths |-> Absent]
    /\ calls = <<>>
    /\ deleted = FALSE
    /\ disk = "ok"
    /\ ret = NoReturn
    /\ loadCount = 0
    /\ ctor = NoCtor
    /\ IdleThreads
    /\ IdleWin

\* get_train_ratio() and get_val_ratio(): a ratio is n / RatioSteps.
Ratios == 0..RatioSteps

\* int(x) of x = num / den, den > 0: the fraction is cut off, towards zero.
PyInt(num, den) == IF num >= 0 THEN num \div den ELSE -((-num) \div den)

\* A conversion that rounds every fraction up.
RoundUp(ratio, total) == (ratio * total + RatioSteps - 1) \div RatioSteps

\* int(ratio * total_size) (lines 133-134).
SizeOf(ratio, total) == PyInt(ratio * total, RatioSteps)

\* Lines 132-135.
SplitSizes ==
    /\ split.pc = "called"
    /\ split' = [ split EXCEPT
                     !.pc = "sized",
                     !.train_size = SizeOf(split.train_ratio, split.total_size),
                     !.val_size = SizeOf(split.val_ratio, split.total_size),
                     !.test_size = split.total_size
                                     - SizeOf(split.train_ratio, split.total_size)
                                     - SizeOf(split.val_ratio, split.total_size) ]
    /\ UNCHANGED <<aggVars, threadVars, winVars, scores, series>>

\* torch.split(inputs, [train_size, val_size, test_size]) (lines 138-143)
\* takes sizes that are not negative and add up to len(inputs).
SplitAccepts(s) ==
    /\ s.train_size >= 0
    /\ s.val_size >= 0
    /\ s.test_size >= 0
    /\ s.train_size + s.val_size + s.test_size = s.total_size

\* A split that hands out its chunks from the end of the tensor backwards.
SplitFromEnd(tensor, sizes) ==
    [ j \in 1..3 |->
        LET after == IF j = 1 THEN 0 ELSE IF j = 2 THEN sizes[1] ELSE sizes[1] + sizes[2]
        IN SubSeq(tensor, Len(tensor) - after - sizes[j] + 1, Len(tensor) - after) ]

\* torch.split(tensor, [train_size, val_size, test_size]): consecutive chunks
\* of the first dimension, of the given sizes, in order.
TorchSplit(tensor, sizes) ==
    [ j \in 1..3 |->
        LET before == IF j = 1 THEN 0 ELSE IF j = 2 THEN sizes[1] ELSE sizes[1] + sizes[2]
        IN SubSeq(tensor, before + 1, before + sizes[j]) ]

\* Lines 138-162: inputs and targets are split by the same sizes and the three
\* partitions are returned. Window k of the pipeline is inputs[k] with targets[k].
SplitReturns ==
    /\ split.pc = "sized"
    /\ SplitAccepts(split)
    /\ LET sizes == <<split.train_size, split.val_size, split.test_size>>
           inputs == [k \in 1..split.total_size |-> [input_of |-> k]]
           targets == [k \in 1..split.total_size |-> [target_of |-> k]]
       IN split' = [ split EXCEPT !.pc = "returned",
                                  !.inputs = TorchSplit(inputs, sizes),
                                  !.targets = TorchSplit(targets, sizes) ]
    /\ UNCHANGED <<aggVars, threadVars, winVars, scores, series>>

\* Lines 138-143: torch.split rejects the sizes with a RuntimeError.
SplitRaises ==
    /\ split.pc = "sized"
    /\ ~SplitAccepts(split)
    /\ split' = [split EXCEPT !.pc = "raised", !.error = "RuntimeError"]
    /\ UNCHANGED <<aggVars, threadVars, winVars, scores, series>>

InitSplit ==
    /\ AllIdle
    /\ split \in [ pc : {"called"}, total_size : 0..MaxTotal,
                    train_ratio : Ratios, val_ratio : Ratios,
                    train_size : {0}, val_size : {0}, test_size : {0},
                    inputs : {<<>>}, targets : {<<>>},
                    error : {"none"} ]
    /\ scores = [pc |-> "idle"]
    /\ series = [pc |-> "idle"]

NextSplit == SplitSizes \/ SplitReturns \/ SplitRaises

SpecSplit == InitSplit /\ [][NextSplit]_vars

\* -------------------------------------------------------- _compute_anomalies
\* n test samples, each the model's prediction and the label.
SampleArrays(n) == [1..n -> [prediction : 0..MaxPrediction, label : 0..1]]

\* self.test_metrics: the sensors are named 1, 2, ... in order, each with its
\* flattened predictions and labels; at most MaxSamples samples in all.
TestMetrics ==
    {<<>>}
    \cup { <<[name |-> 1, samples |-> a]>> :
              a \in UNION {SampleArrays(n) : n \in 1..MaxSamples} }
    \cup { <<[name |-> 1, samples |-> a], [name |-> 2, samples |-> b]>> :
              a \in UNION {SampleArrays(n) : n \in 1..(MaxSamples - 1)},
              b \in UNION {SampleArrays(n) : n \in 1..(MaxSamples - 1)} }

\* get_anomaly_std(): the factor k = num / den, k >= 0.
AnomalyStds ==
    { [num |-> 0, den |-> 1], [num |-> 1, den |-> 2],
      [num |-> 1, den |-> 1], [num |-> 2, den |-> 1] }

RECURSIVE SumOf(_)
SumOf(seq) == IF seq = <<>> THEN 0 ELSE Head(seq) + SumOf(Tail(seq))

\* df["errors"] = df["predictions"] - df["labels"] (line 318).
Errors(samples) == [t \in 1..Len(samples) |-> samples[t].prediction - samples[t].label]

\* A comparison that also flags an error equal to the threshold.
AtLeastThreshold(x, errors, k) ==
    LET n == Len(errors)
        d == n * x - SumOf(errors)
        q == n * SumOf([t \in 1..n |-> errors[t] * errors[t]])
               - SumOf(errors) * SumOf(errors)
    IN /\ n >= 2
       /\ d >= 0
       /\ d * d * k.den * k.den * (n - 1) >= k.num * k.num * q * n

\* x > threshold (lines 319-322), threshold = mean + k * std over the errors of
\* the sensor, std with n - 1 in the denominator (pandas). With n the number
\* of errors, S their sum and q = n * (sum of squares) - S * S:
\*   mean = S / n,  std = sqrt(q / (n * (n - 1))),
\* so x > threshold is  n*x - S > 0  and
\*   (n*x - S)^2 * k.den^2 * (n - 1) > k.num^2 * q * n.
\* With one error std is NaN, and no comparison with NaN is true.
AboveThreshold(x, errors, k) ==
    LET n == Len(errors)
        d == n * x - SumOf(errors)
        q == n * SumOf([t \in 1..n |-> errors[t] * errors[t]])
               - SumOf(errors) * SumOf(errors)
    IN /\ n >= 2
       /\ d > 0
       /\ d * d * k.den * k.den * (n - 1) > k.num * k.num * q * n

\* Tables whose threshold is one statistic of the errors of all sensors together.
PooledTables(test_metrics, k) ==
    LET pool[i \in 0..Len(test_metrics)] ==
            IF i = 0 THEN <<>> ELSE pool[i - 1] \o Errors(test_metrics[i].samples)
        all == pool[Len(test_metrics)]
    IN [i \in 1..Len(test_metrics) |->
          LET errors == Errors(test_metrics[i].samples)
          IN [ name |-> test_metrics[i].name,
               errors |-> errors,
               anomaly |-> [t \in 1..Len(errors) |-> AboveThreshold(errors[t], all, k)] ]]

\* Lines 300-325: [] without test metrics, else one table per sensor
\* (lines 308-323).
AnomalyTables(test_metrics, k) ==
    [i \in 1..Len(test_metrics) |->
        LET errors == Errors(test_metrics[i].samples)
        IN [ name |-> test_metrics[i].name,
             errors |-> errors,
             anomaly |-> [t \in 1..Len(errors) |->
                             AboveThreshold(errors[t], errors, k)] ]]

\* find_tuple_by_first_element(tuples, name): the second element of the first
\* tuple whose first element is the name, or None (0 here).
FindTupleByFirstElement(tuples, name) ==
    IF \E i \in 1..Len(tuples) : tuples[i].name = name
    THEN (CHOOSE i \in 1..Len(tuples) :
             tuples[i].name = name /\ \A j \in 1..(i - 1) : tuples[j].name # name)
    ELSE 0

\* Lines 337-340: anomalies["anomaly"].sum(), or 0 without a record.
TotalAnomalies(tuples, sensor_name) ==
    LET i == FindTupleByFirstElement(tuples, sensor_name)
    IN IF i = 0 THEN 0
       ELSE SumOf([t \in 1..Len(tuples[i].anomaly) |->
                      IF tuples[i].anomaly[t] THEN 1 ELSE 0])

\* _compute_anomalies() returns.
AnomaliesComputed ==
    /\ scores.pc = "called"
    /\ scores' = [ scores EXCEPT
                      !.pc = "computed",
                      !.tables = AnomalyTables(scores.test_metrics, scores.anomaly_std) ]
    /\ UNCHANGED <<aggVars, threadVars, winVars, split, series>>

\* get_total_anomalies(sensor_name) on the computed anomalies.
AnomaliesCounted ==
    /\ scores.pc = "computed"
    /\ \E n \in Sensors :
          scores' = [ scores EXCEPT !.pc = "counted", !.sensor_name = n,
                                    !.total = TotalAnomalies(scores.tables, n) ]
    /\ UNCHANGED <<aggVars, threadVars, winVars, split, series>>

InitAnomalies ==
    /\ AllIdle
    /\ split = [pc |-> "idle"]
    /\ series = [pc |-> "idle"]
    /\ scores \in [ pc : {"called"}, test_metrics : TestMetrics,
                     anomaly_std : AnomalyStds, tables : {<<>>},
                     sensor_name : {0}, total : {0} ]

NextAnomalies == AnomaliesComputed \/ AnomaliesCounted

SpecAnomalies == InitAnomalies /\ [][NextAnomalies]_vars

\* ------------------------------------------------------ the metric values
\* The two metric computations on concrete series: every number the code
\* stores is computed here, as a fraction num / den with den > 0, or as one of
\* the float values that are no fraction.
Num(n, d) == [kind |-> "num", num |-> n, den |-> d]

Zero == Num(0, 1)

NaN == [kind |-> "nan", num |-> 0, den |-> 1]

NegInf == [kind |-> "-inf", num |-> 0, den |-> 1]

\* pd.isna(x)
IsNa(v) == v.kind = "nan"

\* `x if not pd.isna(x) else 0` (lines 200-201, 251-254)
OrZero(v) == IF IsNa(v) THEN Zero ELSE v

LessEq(a, b) == a.num * b.den <= b.num * a.den

\* Series.max() and Series.min(): NaN is skipped, and the result is NaN when
\* nothing is left.
SeriesMax(values) ==
    LET nums == {v \in Range(values) : v.kind = "num"}
    IN IF nums = {} THEN NaN
       ELSE CHOOSE m \in nums : \A v \in nums : LessEq(v, m)

SeriesMin(values) ==
    LET nums == {v \in Range(values) : v.kind = "num"}
    IN IF nums = {} THEN NaN
       ELSE CHOOSE m \in nums : \A v \in nums : LessEq(m, v)

\* x / m on floats: NaN in, NaN out; 0 / 0 is NaN and a negative over 0 is -inf
\* (no value here is positive over a maximum of 0).
Divide(x, m) ==
    IF IsNa(x) \/ IsNa(m) THEN NaN
    ELSE IF m.num = 0 THEN (IF x.num = 0 THEN NaN ELSE NegInf)
    ELSE IF m.num > 0 THEN Num(x.num * m.den, x.den * m.num)
    ELSE Num((0 - x.num) * m.den, x.den * (0 - m.num))

\* f"{round(x * 100, 2)}%" (line 195): the text of a percentage, carried as its
\* number of hundredths of a percent; round() takes a tie to the even neighbour.
Percent(x) ==
    LET q == (x.num * 10000) \div x.den
        r == (x.num * 10000) % x.den
    IN [ text |-> "percent",
         value |-> IF 2 * r < x.den THEN q
                   ELSE IF 2 * r > x.den THEN q + 1
                   ELSE IF q % 2 = 0 THEN q ELSE q + 1 ]

\* A table without rows has no last timestamp: max() of its column is NaT.
NaT(row) == row.length = 0

NoDataText == [text |-> "No data", value |-> 0]

\* The series of self.data: up to MaxSensors sensors, named in order, each with
\* its number of rows and the age now - max(timestamp) of its last row in whole
\* days, negative when that timestamp is later than now (no age is read from a
\* table without rows).
MaxRows == 2

MaxDays == 2

MaxAge == 1

SeriesData ==
    { d \in UNION { [1..k -> [name : Sensors, length : 0..MaxRows, age : (0 - MaxAge)..MaxAge]] :
                    k \in 0..MaxSensors } :
        \A i \in 1..Len(d) :
            d[i].name = i /\ (NaT(d[i]) => d[i].age = 0) }

\* Lines 208-214 and 261-269 with the record each of them writes.
FillMissing(m, active, default) ==
    [n \in (DOMAIN m) \cup Range(active) |-> IF n \in DOMAIN m THEN m[n] ELSE default]

\* Lines 187-195: the frame, one row per series.
CompletenessFrame(data, n_days) ==
    LET float == [i \in 1..Len(data) |-> Num(data[i].length, n_days * 96)]
    IN [i \in 1..Len(data) |->
          [ sensor_name |-> data[i].name,
            length |-> data[i].length,
            float |-> float[i],
            norm |-> Divide(float[i], SeriesMax(float)),
            string |-> Percent(float[i]) ]]

RowNamed(frame, n) == frame[CHOOSE i \in 1..Len(frame) : frame[i].sensor_name = n]

\* Lines 198-214: the mapping; the formatted text is never NaN.
CompletenessMetrics(data, n_days, active) ==
    LET frame == CompletenessFrame(data, n_days)
        m == [n \in NameSet(data) |->
                [ float |-> OrZero(RowNamed(frame, n).float),
                  norm |-> OrZero(RowNamed(frame, n).norm),
                  string |-> RowNamed(frame, n).string ]]
    IN FillMissing(m, active, [float |-> Zero, norm |-> Zero, string |-> NoDataText])

\* np.log (line 240): NaN below 0, -inf at 0, else the logarithm of the fraction.
Log(x) ==
    IF IsNa(x) \/ x.num < 0 THEN NaN
    ELSE IF x.num = 0 THEN NegInf
    ELSE [kind |-> "ln", num |-> x.num, den |-> x.den]

\* Lines 241-243. min() and max() skip NaN. With a -inf among the logarithms the
\* minimum is -inf, and every quotient is inf / inf or has a NaN in it; with
\* one finite value only, max - min is 0 and the quotient 0 / 0. A value
\* strictly between the smallest and the largest is "between" 0 and 1.
NormLog(float, i) ==
    LET finite == {j \in 1..Len(float) : Log(float[j]).kind = "ln"}
        lo == SeriesMin([j \in 1..Len(float) |->
                            IF j \in finite THEN float[j] ELSE NaN])
        hi == SeriesMax([j \in 1..Len(float) |->
                            IF j \in finite THEN float[j] ELSE NaN])
    IN IF i \notin finite THEN NaN
       ELSE IF \E j \in 1..Len(float) : Log(float[j]) = NegInf THEN NaN
       ELSE IF LessEq(hi, lo) THEN NaN
       ELSE IF LessEq(float[i], lo) THEN Zero
       ELSE IF LessEq(hi, float[i]) THEN Num(1, 1)
       ELSE [kind |-> "between", num |-> 0, den |-> 1]

\* Lines 228-246: the frame, one row per series. The float is (now -
\* most_recent) over n_days worth of seconds, NaN for NaT (lines 236-238); the
\* string (lines 244-246) is the text of an elapsed time of whole days, and
\* "nan days\nnan:nan:nan" for NaT.
FreshnessFrame(data, n_days) ==
    LET float == [i \in 1..Len(data) |->
                     IF NaT(data[i]) THEN NaN ELSE Num(data[i].age, n_days)]
    IN [i \in 1..Len(data) |->
          [ sensor_name |-> data[i].name,
            most_recent |-> IF NaT(data[i]) THEN NaN ELSE Num(data[i].age, 1),
            float |-> float[i],
            norm |-> Divide(float[i], SeriesMax(float)),
            log |-> Log(float[i]),
            norm_log |-> NormLog(float, i),
            string |-> IF NaT(data[i]) THEN [text |-> "nan days", value |-> 0]
                       ELSE [text |-> "elapsed", value |-> data[i].age] ]]

\* Lines 249-269: the mapping.
FreshnessMetrics(data, n_days, active) ==
    LET frame == FreshnessFrame(data, n_days)
        m == [n \in NameSet(data) |->
                [ float |-> OrZero(RowNamed(frame, n).float),
                  norm |-> OrZero(RowNamed(frame, n).norm),
                  log |-> OrZero(RowNamed(frame, n).log),
                  norm_log |-> OrZero(RowNamed(frame, n).norm_log),
                  string |-> RowNamed(frame, n).string ]]
    IN FillMissing(m, active,
                   [ float |-> Zero, norm |-> Zero, log |-> Zero, norm_log |-> Zero,
                     string |-> NoDataText ])

\* _compute_completeness_metrics() (lines 104 and 180-182).
CompletenessComputed ==
    /\ series.pc = "called"
    /\ series' = [ series EXCEPT
                     !.pc = "completeness",
                     !.completeness =
                         CompletenessMetrics(series.data, series.n_days,
                                             series.active_sensors) ]
    /\ UNCHANGED <<aggVars, threadVars, winVars, split, scores>>

\* _compute_freshness_metrics() (lines 105 and 222) on some series.
FreshnessComputed ==
    /\ series.pc = "completeness"
    /\ series.data # <<>>
    /\ series' = [ series EXCEPT
                     !.pc = "freshness",
                     !.freshness =
                         FreshnessMetrics(series.data, series.n_days,
                                          series.active_sensors) ]
    /\ UNCHANGED <<aggVars, threadVars, winVars, split, scores>>

\* _compute_freshness_metrics() without series: the frame of lines 228-235 has
\* no datetime column, and .dt (lines 236-238) raises before the mapping is
\* assigned.
FreshnessRaises ==
    /\ series.pc = "completeness"
    /\ series.data = <<>>
    /\ series' = [series EXCEPT !.pc = "raised"]
    /\ UNCHANGED <<aggVars, threadVars, winVars, split, scores>>

\* self.active_sensors lists the names of self.data (line 97), and
\* get_n_days() is a positive number of days.
InitMetrics ==
    /\ AllIdle
    /\ split = [pc |-> "idle"]
    /\ scores = [pc |-> "idle"]
    /\ \E d \in SeriesData, n \in 1..MaxDays :
          series = [ pc |-> "called", data |-> d, n_days |-> n,
                     active_sensors |-> Names(d),
                     completeness |-> <<>>, freshness |-> <<>> ]

NextMetrics == CompletenessComputed \/ FreshnessComputed \/ FreshnessRaises

SpecMetrics == InitMetrics /\ [][NextMetrics]_vars

\* ------------------------------------------------------------------ claims
Call(i) == calls[i]

CallIndexes == 1..Len(calls)

C2_OneWritePerNonEmptyCompute ==
    \A i \in CallIndexes :
        /\ Call(i).wrote <=>
              (Call(i).invoked /\ Call(i).computed = "ok" /\ Call(i).cvalue.len > 0)
        /\ Call(i).hit => ~Call(i).wrote
        /\ (Call(i).computed = "ok" /\ Call(i).cvalue.len = 0) =>
              (Call(i).result = Call(i).cvalue /\ ~Call(i).wrote)

\* C3: once a construction has completed, the load sequence has run exactly
\* once, and every later construction leaves the instance, its attributes and
\* the backing store as they were, without running the load sequence.
C3_LoadSequenceRunsOnce ==
    /\ [](instance # 0 => loadCount = 1)
    /\ [][ (instance # 0 /\ self.initialized
              /\ ret'.query = "CustomDashboardData" /\ ret' # ret)
           => (/\ instance' = instance
               /\ self' = self
               /\ store' = store
               /\ loadCount' = loadCount
               /\ ~ret'.loaded) ]_vars

\* C3's case: a construction after the first has returned.
C3_ConstructedAgain ==
    /\ ret.query = "CustomDashboardData"
    /\ ~ret.loaded
    /\ loadCount = 1
    /\ self.initialized

AllEmpty(s) == \A i \in 1..6 : Artifacts(s)[i] = <<>>

AllNonEmpty(s) == \A i \in 1..6 : Artifacts(s)[i] # <<>>

\* C5: after loading, the six artifacts are all non-empty or all empty; a loader
\* that returned an empty collection or raised leaves all six empty; and in
\* that case construction still invokes the completeness and the freshness
\* computation (_initialize_attributes itself does, whenever it got as far as
\* its metric computations).
C5_AllOrNothing ==
    instance # 0 =>
        /\ AllEmpty(self) \/ AllNonEmpty(self)
        /\ ctor.anyBad => AllEmpty(self)
        /\ ~ctor.anyBad => AllNonEmpty(self)
        /\ AllEmpty(self) =>
              /\ MetricKinds \subseteq (ctor.initRan \cup ctor.debugRan)
              /\ self.anomaly_std_set => ctor.initRan = MetricKinds

\* C5's case: a loader failed, all six are empty and both computations ran.
C5_DegradedStillComputes ==
    /\ instance # 0
    /\ ctor.anyBad
    /\ AllEmpty(self)
    /\ ctor.initRan = MetricKinds

\* C6, as stated: no public query method raises to its caller.
C6_NoQueryRaises == ~ret.raised

\* C7, as stated: once construction has completed, every active sensor has an
\* entry in the completeness and in the freshness mapping.
C7_ActiveSensorsHaveMetrics ==
    instance # 0 =>
        \A n \in Range(self.active_sensors) :
            /\ n \in DOMAIN self.sensor_metrics.completeness
            /\ n \in DOMAIN self.sensor_metrics.freshness

\* C4, as stated: with several threads constructing, the load sequence runs at
\* most once and all threads obtain one and the same instance.
C4_ThreadsLoadOnce ==
    /\ loadCount <= 1
    /\ \A t \in DOMAIN tself : \A u \in DOMAIN tself :
          (tself[t] # 0 /\ tself[u] # 0) => tself[t] = tself[u]

SeqLen(q) == Len(SequenceData(df, q))

WindowsFor(q) == SelectSeq(windows, LAMBDA x : x.sequence = q)

Visited(q) == q \in Range(Unique(df)) /\ q \notin Range(todo)

\* The loop has reached the sequence: visited it, or failed on it.
Attempted(q) == Visited(q) \/ failure = q

Fits(q) == SeqLen(q) - cfg.window_size - cfg.horizon + 1 > 0

ExpectedStarts(q) ==
    {i \in 0..SeqLen(q) :
        i % cfg.stride = 0 /\ i + cfg.window_size + cfg.horizon - 1 < SeqLen(q)}

WindowsAsExpected(q) ==
    /\ {WindowsFor(q)[k].start : k \in 1..Len(WindowsFor(q))} = ExpectedStarts(q)
    /\ \A k \in 1..Len(WindowsFor(q)) : WindowsFor(q)[k].start = (k - 1) * cfg.stride
    /\ Len(WindowsFor(q)) =
          ((SeqLen(q) - cfg.window_size - cfg.horizon) \div cfg.stride) + 1

\* C8, as stated: every sequence with L - w - h + 1 > 0 gets windows at exactly
\* the starts 0, s, 2s, ... with i + w + h - 1 < L: floor((L - w - h)/s) + 1 of them.
C8_WindowsWheneverOneFits ==
    \A q \in SequenceIds : (Attempted(q) /\ Fits(q)) => WindowsAsExpected(q)

\* C8, amended: every sequence with L > w and L - w - h + 1 > 0 gets windows at
\* exactly the starts 0, s, 2s, ... with i + w + h - 1 < L:
\* floor((L - w - h)/s) + 1 of them (a sequence with L = w is rejected, also
\* when h = 0 and one window would fit).
C8_WindowsAboveWindowSize ==
    \A q \in SequenceIds :
        (Attempted(q) /\ Fits(q) /\ SeqLen(q) > cfg.window_size) => WindowsAsExpected(q)

\* C8's case: a returned build with a stride of 2 and several windows of one sequence.
C8_StridedWindows ==
    /\ wpc = "returned"
    /\ cfg.stride = 2
    /\ \E q \in SequenceIds : Len(WindowsFor(q)) >= 2 /\ SeqLen(q) > 2 * cfg.stride

\* C9, as stated: a sequence in which no window fits (L - w - h + 1 <= 0) makes
\* the builder raise; the build never returns having passed over one.
C9_NoFitRaises ==
    /\ \A q \in SequenceIds :
          (Attempted(q) /\ ~Fits(q)) => (wpc = "raised" /\ failure = q)
    /\ wpc = "returned" => \A q \in Range(Unique(df)) : Fits(q)

Offenders == {q \in Range(Unique(df)) : SeqLen(q) <= cfg.window_size}

FirstOffender ==
    Unique(df)[CHOOSE i \in 1..Len(Unique(df)) :
                  /\ Unique(df)[i] \in Offenders
                  /\ \A j \in 1..(i - 1) : Unique(df)[j] \notin Offenders]

\* C10: a table with a sequence of L <= window_size rows never makes the build
\* return: the loop runs on until it reaches the first such sequence, the
\* assertion then names it, and nothing is returned, the windows of earlier
\* sequences included.
C10_ShortSequenceIsFatal ==
    Offenders # {} =>
        /\ wpc # "returned"
        /\ output = NoOutput
        /\ wpc = "loop" => (todo # <<>> /\ FirstOffender \in Range(todo))
        /\ wpc = "raised" => failure = FirstOffender

\* C10's case: the build failed on a short sequence after building windows
\* from an earlier one.
C10_FailedAfterWindows ==
    /\ wpc = "raised"
    /\ failure \in Offenders
    /\ windows # <<>>
    /\ output = NoOutput

\* C14, as stated: when the compute succeeded with a non-empty result and the
\* write of it failed, the call still returns the computed result, and nothing
\* was written.
C14_PersistFailureReturnsResult ==
    \A i \in CallIndexes :
        Call(i).saveFailed =>
            /\ Call(i).result = Call(i).cvalue
            /\ ~Call(i).wrote

\* C15, as stated: when the file exists and cannot be loaded, whichever way
\* load_data signals it, the call invokes the compute function and returns
\* what it computed, and nothing is raised to the caller.
C15_LoadFailureRecomputes ==
    /\ ~ret.raised
    /\ \A i \in CallIndexes :
          Call(i).loadFailed =>
              /\ Call(i).invoked
              /\ Call(i).computed = "ok" => Call(i).result = Call(i).cvalue

\* The mark a compute function leaves on the values it builds.
OwnMark(fn) ==
    CASE fn = "_compute_daily_counts" -> "daily_counts"
      [] fn = "_compute_completeness_metrics" -> "completeness"
      [] fn = "_compute_freshness_metrics" -> "freshness"
      [] fn = "_compute_anomalies" -> "anomalies"
      [] fn = "_compute_training_windows" -> "training_windows"
      [] OTHER -> fn

\* C16, as stated: whatever a cached query returns was built by that query's
\* own compute function (or is empty), never by another query's.
C16_OwnArtifactPerQuery ==
    \A i \in CallIndexes : Call(i).result.fn \in {"none", OwnMark(Call(i).fn)}

\* The place of table row r among the rows of its own sequence, from 0.
RankInSequence(r) == Cardinality({r2 \in 1..(r - 1) : df[r2] = df[r]})

WindowIndexes == 1..Len(windows)

\* C11: every window built with start i from a sequence has as input exactly
\* the rows i .. i+window_size-1 of that sequence, at the input feature
\* indices, and as target the row i+window_size+horizon-1 of that sequence, at
\* the target feature index; no row of a window belongs to another sequence.
C11_WindowsWithinSequence ==
    \A k \in WindowIndexes :
        LET x == windows[k]
        IN /\ Len(x.input) = cfg.window_size
           /\ \A j \in 1..Len(x.input) :
                 /\ df[x.input[j]] = x.sequence
                 /\ RankInSequence(x.input[j]) = x.start + j - 1
           /\ df[x.target] = x.sequence
           /\ RankInSequence(x.target) = x.start + cfg.window_size + cfg.horizon - 1
           /\ x.columns = IF cfg.input_feature_indices.unset THEN Columns
                          ELSE cfg.input_feature_indices.list
           /\ x.target_column = cfg.target_feature_index

\* C11's case: a returned window whose input and target lie apart in the
\* table, a row of another sequence in between.
C11_InterleavedWindow ==
    /\ wpc = "returned"
    /\ \E k \in 1..Len(output.windows) :
          LET x == output.windows[k]
              last == x.input[Len(x.input)]
          IN /\ x.target > last + 1
             /\ \E r \in (last + 1)..(x.target - 1) : df[r] # x.sequence

\* C20, as stated: a nonzero target index never makes the build fail, and the
\* build then uses the indices the caller gave; with the input indices unset
\* and the target index 0 the inputs take all columns.
C20_NonzeroTargetOnlyWarns ==
    /\ cfg.target_feature_index # 0 => wpc # "index_error"
    /\ wpc = "returned" =>
          \A k \in 1..Len(output.windows) :
              output.windows[k].columns =
                  IF cfg.input_feature_indices.unset /\ cfg.target_feature_index = 0
                  THEN Columns
                  ELSE cfg.input_feature_indices.list

\* C12: for train_ratio + val_ratio <= 1 (both >= 0) the sizes are
\* floor(train_ratio * total), floor(val_ratio * total) and the rest; they add
\* up to total and the test size is not negative.
C12_SizesAddUp ==
    (split.pc \in {"sized", "returned", "raised"}
        /\ split.train_ratio + split.val_ratio <= RatioSteps) =>
        /\ split.train_size * RatioSteps <= split.train_ratio * split.total_size
        /\ split.train_ratio * split.total_size < (split.train_size + 1) * RatioSteps
        /\ split.val_size * RatioSteps <= split.val_ratio * split.total_size
        /\ split.val_ratio * split.total_size < (split.val_size + 1) * RatioSteps
        /\ split.train_size + split.val_size + split.test_size = split.total_size
        /\ split.test_size >= 0
        /\ split.pc # "raised"

\* C12's case: the ratios add up to 1, both sizes were rounded down and the
\* test partition took the remainder.
C12_RemainderGoesToTest ==
    /\ split.pc = "returned"
    /\ split.train_ratio + split.val_ratio = RatioSteps
    /\ split.train_ratio > 0
    /\ split.val_ratio > 0
    /\ split.test_size > 0

\* C13, as stated: with train_ratio + val_ratio > 1 the split fails with
\* InvalidSplitError and returns no partition.
C13_InvalidSplitFails ==
    split.train_ratio + split.val_ratio > RatioSteps =>
        /\ split.pc # "returned"
        /\ split.pc = "raised" => split.error = "InvalidSplitError"

\* The samples of a sensor in the test metrics (none when it has no record).
ScoredSamples(name) ==
    IF \E i \in 1..Len(scores.test_metrics) : scores.test_metrics[i].name = name
    THEN scores.test_metrics[
             CHOOSE i \in 1..Len(scores.test_metrics) :
                 scores.test_metrics[i].name = name].samples
    ELSE <<>>

\* error[t] > mean + k * std, over the predictions and labels themselves.
StrictlyAbove(samples, t, k) ==
    LET n == Len(samples)
        S == SumOf([u \in 1..n |-> samples[u].prediction])
               - SumOf([u \in 1..n |-> samples[u].label])
        x == samples[t].prediction - samples[t].label
        squares == SumOf([u \in 1..n |->
                      (samples[u].prediction - samples[u].label)
                          * (samples[u].prediction - samples[u].label)])
    IN /\ n > 1
       /\ n * x > S
       /\ (n * x - S) * (n * x - S) * k.den * k.den * (n - 1)
             > k.num * k.num * (n * squares - S * S) * n

\* C17: a sample is flagged exactly when its error prediction - label is
\* strictly greater than mean + k * std of the sensor's own errors (so never
\* when the error is at or below the mean, however large in magnitude), and
\* get_total_anomalies of a sensor is the number of its flagged samples, 0
\* for a sensor without a record.
C17_FlaggedAboveThreshold ==
    /\ scores.pc \in {"computed", "counted"} =>
          /\ Len(scores.tables) = Len(scores.test_metrics)
          /\ \A i \in 1..Len(scores.tables) :
                LET samples == scores.test_metrics[i].samples
                IN /\ scores.tables[i].name = scores.test_metrics[i].name
                   /\ Len(scores.tables[i].anomaly) = Len(samples)
                   /\ \A t \in 1..Len(samples) :
                         scores.tables[i].anomaly[t]
                             <=> StrictlyAbove(samples, t, scores.anomaly_std)
    /\ scores.pc = "counted" =>
          scores.total =
              Cardinality({t \in 1..Len(ScoredSamples(scores.sensor_name)) :
                  StrictlyAbove(ScoredSamples(scores.sensor_name), t, scores.anomaly_std)})

\* C17's case: a sensor with a flagged sample and a negative error at least
\* as large in magnitude that is not flagged; the total counts the flagged.
C17_OnlyOverPredictionCounts ==
    /\ scores.pc = "counted"
    /\ scores.total >= 1
    /\ \E i \in 1..Len(scores.tables) :
          /\ scores.tables[i].name = scores.sensor_name
          /\ \E t \in 1..Len(scores.tables[i].errors) :
               \E u \in 1..Len(scores.tables[i].errors) :
                  /\ scores.tables[i].anomaly[t]
                  /\ scores.tables[i].errors[t] > 0
                  /\ ~scores.tables[i].anomaly[u]
                  /\ scores.tables[i].errors[u] < 0
                  /\ -scores.tables[i].errors[u] >= scores.tables[i].errors[t]

\* The series a computed mapping was computed from.
MetricsComputed == series.pc \in {"completeness", "freshness", "raised"}

\* C18, as stated: after the completeness computation, every sensor whose raw
\* completeness is zero (a series without observations) has the record
\* {raw 0, normalized 0, display "No data"} in the completeness mapping.
C18_EmptySeriesHasNoData ==
    MetricsComputed =>
        \A i \in 1..Len(series.data) :
            series.data[i].length = 0 =>
                LET r == series.completeness[series.data[i].name]
                IN /\ r.float.kind = "num" /\ r.float.num = 0
                   /\ r.norm.kind = "num" /\ r.norm.num = 0
                   /\ r.string = NoDataText

InUnit(v) == v.kind = "num" /\ 0 <= v.num /\ v.num <= v.den

\* The sensors of a mapping with the largest raw value, where that value is not
\* 0 (the normalized value of a maximum 0 is the placeholder).
LargestRaw(m, names) ==
    {n \in names : m[n].float.num # 0 /\ \A o \in names : LessEq(m[o].float, m[n].float)}

NormalizedWithinUnit(m, names) ==
    /\ \A n \in DOMAIN m : InUnit(m[n].norm)
    /\ \A n \in LargestRaw(m, names) : m[n].norm.kind = "num" /\ m[n].norm.num = m[n].norm.den

\* C19, as stated: for every sensor and both metric kinds the stored normalized
\* value lies in [0, 1] (0 being the placeholder of a missing value), also for
\* series whose last timestamp is later than now, and the sensor with the
\* largest raw value has normalized 1.
C19_NormalizedWithinUnit ==
    /\ MetricsComputed =>
          NormalizedWithinUnit(series.completeness, NameSet(series.data))
    /\ series.pc = "freshness" =>
          NormalizedWithinUnit(series.freshness,
              {series.data[i].name : i \in {j \in 1..Len(series.data) : ~NaT(series.data[j])}})

\* The first row of the table that belongs to the sequence of row r.
FirstRowOf(r) == CHOOSE r1 \in 1..r : df[r1] = df[r] /\ \A r2 \in 1..(r1 - 1) : df[r2] # df[r]

\* The first input row of the k-th returned window.
FirstInput(k) == output.inputs[k].rows[1]

\* C21: the returned inputs and targets are the windows of all sequences, the
\* sequences in the order in which their identifiers first appear in the table
\* and the windows of one sequence by increasing start; inputs[k] and
\* targets[k] belong to the same window; every start the stride reaches in every
\* sequence is there exactly once; the feature dimension is the number of input
\* feature indices.
C21_ConcatenatedInOrder ==
    wpc = "returned" =>
        LET n == Len(output.inputs)
        IN /\ Len(output.targets) = n
           /\ output.feature_dim =
                 Len(IF cfg.input_feature_indices.unset THEN Columns
                     ELSE cfg.input_feature_indices.list)
           /\ \A k \in 1..n :
                 /\ df[output.targets[k].row] = df[FirstInput(k)]
                 /\ RankInSequence(output.targets[k].row) =
                       RankInSequence(FirstInput(k)) + cfg.window_size + cfg.horizon - 1
           /\ \A k \in 1..n : \A l \in (k + 1)..n :
                 \/ FirstRowOf(FirstInput(k)) < FirstRowOf(FirstInput(l))
                 \/ /\ df[FirstInput(k)] = df[FirstInput(l)]
                    /\ RankInSequence(FirstInput(k)) < RankInSequence(FirstInput(l))
           /\ \A q \in SequenceIds : \A s \in 0..Len(df) :
                 (s % cfg.stride = 0 /\ s + cfg.window_size + cfg.horizon <= SeqLen(q))
                     => Cardinality({k \in 1..n : /\ df[FirstInput(k)] = q
                                                  /\ RankInSequence(FirstInput(k)) = s}) = 1

\* C21's case: a returned build of several windows in which a sequence with the
\* larger identifier comes first, and a sequence has two windows.
C21_LaterIdentifierFirst ==
    /\ wpc = "returned"
    /\ \E k \in 1..Len(output.inputs) : \E l \in (k + 1)..Len(output.inputs) :
          df[FirstInput(k)] > df[FirstInput(l)]
    /\ \E k \in 1..Len(output.inputs) : \E l \in (k + 1)..Len(output.inputs) :
          df[FirstInput(k)] = df[FirstInput(l)]

\* The windows first .. last of the pipeline, in order.
InputsFrom(first, last) == [k \in 1..(last - first + 1) |-> [input_of |-> first + k - 1]]

TargetsFrom(first, last) == [k \in 1..(last - first + 1) |-> [target_of |-> first + k - 1]]

\* C22: the returned split keeps the order of the windows: train is the first
\* train_size windows, val the next val_size, test the remaining ones; the
\* parts are disjoint and cover every window once; inputs and targets are
\* partitioned alike, each input staying with its own target.
C22_SplitKeepsOrder ==
    split.pc = "returned" =>
        LET a == split.train_size
            b == split.val_size
            n == split.total_size
        IN /\ split.inputs = <<InputsFrom(1, a), InputsFrom(a + 1, a + b), InputsFrom(a + b + 1, n)>>
           /\ split.targets =
                 <<TargetsFrom(1, a), TargetsFrom(a + 1, a + b), TargetsFrom(a + b + 1, n)>>
           /\ \A k \in 1..n :
                 Cardinality({<<j, i>> \in (1..3) \X (1..n) :
                     i <= Len(split.inputs[j]) /\ split.inputs[j][i].input_of = k}) = 1
           /\ \A j \in 1..3 :
                 /\ Len(split.inputs[j]) = Len(split.targets[j])
                 /\ \A i \in 1..Len(split.inputs[j]) :
                       split.inputs[j][i].input_of = split.targets[j][i].target_of

\* C22's case: a returned split with windows in each of the three parts.
C22_ThreeNonEmptyParts ==
    /\ split.pc = "returned"
    /\ \A j \in 1..3 : split.inputs[j] # <<>>

\* C23, as stated: with the six artifacts loaded, a get_completeness_metrics or
\* get_freshness_metrics call that finds no file returns the table its compute
\* function produced and leaves it at its path; the same query called again
\* right after it is a read-hit that returns the same table and does not invoke
\* the compute function.
C23_MetricsQueryPersists ==
    (ret.query \in {"get_completeness_metrics", "get_freshness_metrics"} /\ self.data # <<>>) =>
        /\ (~LastCall.existed /\ LastCall.computed = "ok") =>
              /\ LastCall.result = LastCall.cvalue
              /\ LastCall.wrote
              /\ store[LastCall.path] = LastCall.cvalue
        /\ (LastCall.repeat \in {"persisted", "unpersisted"} /\ disk = "ok") =>
              LastCall.hit /\ LastCall.same /\ ~LastCall.invoked

\* A step of one of the fifteen queries: a query has answered, and no file has
\* gone from the store (a deletion from outside is no query, and a construction
\* answers as "CustomDashboardData").
QueryStep ==
    /\ ret'.query \notin {"none", "CustomDashboardData"}
    /\ \A p \in Paths : PathExists(store, p) => PathExists(store', p)

\* The compute function that writes the mapping of a metric kind.
ComputeOf(kind) ==
    IF kind = "completeness" THEN "_compute_completeness_metrics"
    ELSE "_compute_freshness_metrics"

\* A mapping is whole: never computed, or holding an entry for every series.
Whole(s, kind) ==
    \/ DOMAIN s.sensor_metrics[kind] = {}
    \/ NameSet(s.data) \subseteq DOMAIN s.sensor_metrics[kind]

\* What a query step leaves alone.
QueryFrame ==
    /\ Artifacts(self') = Artifacts(self)
    /\ self'.active_sensors = self.active_sensors
    /\ \A kind \in MetricKinds :
          self'.sensor_metrics[kind] # self.sensor_metrics[kind] =>
              \E i \in 1..Len(calls') :
                  calls'[i].invoked /\ ~calls'[i].hit /\ calls'[i].fn = ComputeOf(kind)
    /\ (calls' # <<>> /\ \A i \in 1..Len(calls') : calls'[i].hit) =>
          (self' = self /\ store' = store)

\* C24: once construction has completed, no query changes the six loaded
\* artifacts or active_sensors; a metric mapping changes only in a query whose
\* cache lookup missed and whose compute function ran; a query served by
\* read-hits leaves the aggregator and the backing store as they were; and no
\* mapping is ever left partially replaced.
C24_QueriesKeepState ==
    /\ [](instance # 0 => \A kind \in MetricKinds : Whole(self, kind))
    /\ [][QueryStep => QueryFrame]_vars

\* C24's case: a query on loaded artifacts ran a metric computation again, the
\* mappings holding an entry for each of several sensors, and a file of the
\* store is there for the read-hits of other queries.
C24_RecomputedOnLoadedArtifacts ==
    /\ ret.query \in {"get_completeness_metrics", "get_freshness_metrics"}
    /\ LastCall.invoked
    /\ Len(self.data) > 1
    /\ \A kind \in MetricKinds : DOMAIN self.sensor_metrics[kind] = NameSet(self.data)
    /\ \E p \in Paths : PathExists(store, p)

\* The other runs of _compute_anomalies to compare with: test metrics that hold
\* the same entry for one sensor, alone or with the entry of another sensor
\* before or after it.
RunsAgreeingOn(entry) ==
    LET others == [ name : Sensors \ {entry.name},
                    samples : UNION {SampleArrays(n) : n \in 1..(MaxSamples - 1)} ]
    IN {<<entry>>} \cup {<<entry, o>> : o \in others} \cup {<<o, entry>> : o \in others}

\* C25: the anomaly record of a sensor (its errors and its flags) depends only
\* on the predictions and labels of that sensor and on k: any other run with
\* the same k whose test metrics agree on the sensor, whatever they hold for
\* other sensors, computes the same record for it.
C25_RecordDependsOnOwnSensor ==
    scores.pc \in {"computed", "counted"} =>
        \A i \in 1..Len(scores.test_metrics) :
            \A other \in RunsAgreeingOn(scores.test_metrics[i]) :
                \A j \in 1..Len(other) :
                    other[j] = scores.test_metrics[i] =>
                        AnomalyTables(other, scores.anomaly_std)[j] = scores.tables[i]

\* C25's case: anomalies computed for two sensors with different errors, one
\* of them with a flagged sample and the other without any.
C25_TwoSensorsOneFlagged ==
    /\ scores.pc = "computed"
    /\ Len(scores.tables) = 2
    /\ scores.tables[1].errors # scores.tables[2].errors
    /\ \E t \in 1..Len(scores.tables[1].anomaly) : scores.tables[1].anomaly[t]
    /\ \A t \in 1..Len(scores.tables[2].anomaly) : ~scores.tables[2].anomaly[t]

====
